---- MODULE Spec2Model ----
(***************************************************************************)
(* The Mobile Legends heroes API: a CRUD REST service over one "hero"      *)
(* resource with a bearer-token login/logout layer.  The repository holds  *)
(* three builds of it:                                                     *)
(*   "durable"    PostgreSQL table + auth (handlers.go 1-370, database and *)
(*                router in unnamed/part_000 and part_001, models.go)      *)
(*   "memoryAuth" in-memory slice + auth (handlers.go 372-737)             *)
(*   "memory"     in-memory slice, no auth (main.go)                       *)
(*                                                                         *)
(* Strings the code takes apart (the Authorization header, the {id} path   *)
(* segment) are sequences: a header is a sequence of chunks ("Bearer " is  *)
(* one chunk, a token is one chunk), a path id is a sequence of one-       *)
(* character strings.  Time is counted in ticks of 10 minutes.             *)
(***************************************************************************)
EXTENDS Integers, Sequences, FiniteSets, TLC

VARIABLES
    variant,      \* which build is running
    validTokens,  \* map[string]time.Time: token -> expiry instant
    nextUuid,     \* how many tokens uuid.New() has produced so far
    now,          \* time.Now() / CURRENT_TIMESTAMP
    lastSweep,    \* instant at which cleanExpiredTokens last went to sleep
    heroes,       \* the heroes table (durable) or the heroes slice (memory)
    nextID,       \* the id sequence of the table, or the nextID counter
    tokenMutex,   \* sync.RWMutex: the goroutines holding it for writing and for reading
    inflight,     \* the registry access each goroutine is making: its operation and token
    pc,           \* position of each goroutine in the handler (or the sweep) it runs
    newHero,      \* in-memory build: the local newHero / updatedHero of each in-flight request
    oldHeroes,    \* in-memory build: the heroes slice as each in-flight append read it
    foundAt,      \* in-memory build: the index i at which each in-flight updateHero found the id
    resp,         \* the last request and the response written for it
    revoked,      \* history: tokens for which a logout has been answered 200
    created,      \* history: id -> record returned by create, until updated or deleted
    deleted,      \* history: ids for which a delete has succeeded
    acked         \* history: id -> record of the last acknowledged create or update, until a delete is acknowledged

vars == <<variant, validTokens, nextUuid, now, lastSweep, heroes, nextID,
          tokenMutex, inflight,
          pc, newHero, oldHeroes, foundAt, resp, revoked, created, deleted, acked>>

authVars == <<validTokens, nextUuid>>
storeVars == <<heroes, nextID>>
clockVars == <<now, lastSweep>>
workerVars == <<pc, newHero, oldHeroes, foundAt>>
lockVars == <<tokenMutex, inflight>>
historyVars == <<revoked, created, deleted, acked>>

(***************************************************************************)
(* Bounds of the model.                                                    *)
(***************************************************************************)
MaxLogins == 2       \* SpecAuth: successful logins
MaxStoreLogins == 1  \* Spec: successful logins
MaxCreates == 1      \* successful creates
MaxDays == 1         \* coarse clock: jumps of one token lifetime plus a tick
MaxLate == 1         \* SpecSweep: ticks by which a sweep may wake up late
MaxLoginTime == 1    \* SpecSweep: logins happen in the first ticks
MaxRaceCreates == 2  \* SpecCreate: values of nextID read by concurrent creates
MaxLockLogins == 1   \* SpecLock: successful logins
MaxBootLogins == 2   \* SpecBoot: successful logins
MaxGateLogins == 1   \* SpecGate: successful logins
MaxReseeds == 1      \* SpecBoot: startups that find the table empty

(***************************************************************************)
(* Program constants, in ticks of 10 minutes.                              *)
(***************************************************************************)
SweepInterval == 3
TokenTTL == 144
FirstID == 4

StatusOK == 200
StatusCreated == 201
StatusNoContent == 204
StatusBadRequest == 400
StatusUnauthorized == 401
StatusNotFound == 404
StatusInternalServerError == 500

Variants == {"durable", "memoryAuth", "memory"}
HasAuth(v) == v \in {"durable", "memoryAuth"}

(***************************************************************************)
(* strings.HasPrefix, strings.TrimPrefix, strconv.Atoi, strconv.Itoa       *)
(***************************************************************************)
HasPrefix(s, prefix) ==
    Len(s) >= Len(prefix) /\ SubSeq(s, 1, Len(prefix)) = prefix

TrimPrefix(s, prefix) ==
    IF HasPrefix(s, prefix) THEN SubSeq(s, Len(prefix) + 1, Len(s)) ELSE s

Digits == <<"0", "1", "2", "3", "4", "5", "6", "7", "8", "9">>

DigitValue(c) == (CHOOSE i \in 1..10 : Digits[i] = c) - 1

IsDigit(c) == \E i \in 1..10 : Digits[i] = c

RECURSIVE DigitsValue(_)
DigitsValue(s) ==
    IF s = <<>> THEN 0
    ELSE 10 * DigitsValue(SubSeq(s, 1, Len(s) - 1)) + DigitValue(s[Len(s)])

\* strconv.Atoi: an optional sign, then at least one decimal digit
Atoi(s) ==
    LET signed == s # <<>> /\ s[1] \in {"+", "-"}
        body == IF signed THEN Tail(s) ELSE s
    IN  IF body = <<>> \/ \E i \in 1..Len(body) : ~IsDigit(body[i])
        THEN [ok |-> FALSE, v |-> 0]
        ELSE [ok |-> TRUE,
              v |-> IF signed /\ s[1] = "-" THEN 0 - DigitsValue(body)
                    ELSE DigitsValue(body)]

RECURSIVE ItoaDigits(_)
ItoaDigits(n) ==
    IF n < 10 THEN <<Digits[n + 1]>>
    ELSE Append(ItoaDigits(n \div 10), Digits[(n % 10) + 1])

Itoa(n) == IF n < 0 THEN <<"-">> \o ItoaDigits(0 - n) ELSE ItoaDigits(n)

(***************************************************************************)
(* Responses: respondWithJSON / respondWithError.  "body" is the payload   *)
(* (a hero, a token, a list) or NoBody for a message or error object.      *)
(***************************************************************************)
NoBody == <<>>

respondWithJSON(code, msg, payload) == [code |-> code, msg |-> msg, body |-> payload]

respondWithError(code, message) == respondWithJSON(code, message, NoBody)

(***************************************************************************)
(* Credential store: config.Users as loaded from config.yaml.              *)
(***************************************************************************)
Users == <<[Username |-> "user1", Password |-> "12345"],
           [Username |-> "user2", Password |-> "mahauser"]>>

(***************************************************************************)
(* Session registry.                                                       *)
(***************************************************************************)
BearerPrefix == <<"Bearer ">>

\* uuid.New().String(): the n-th token produced; never a value seen before
Uuid(n) == <<"uuid-" \o ToString(n)>>

\* a well-formed token the server never issued
ForgedToken == <<"forged">>

IssuedTokens == {Uuid(n) : n \in 1..nextUuid}

MapPut(m, k, v) == [x \in DOMAIN m \cup {k} |-> IF x = k THEN v ELSE m[x]]

MapDelete(m, k) == [x \in DOMAIN m \ {k} |-> m[x]]

EmptyMap == [x \in {} |-> 0]

\* a different gate, for comparison: a token past its expiry is turned away
authMiddlewareChecksExpiry(authHeader) ==
    IF authHeader = <<>>
    THEN [pass |-> FALSE,
          r |-> respondWithError(StatusUnauthorized, "Authorization header required")]
    ELSE IF ~HasPrefix(authHeader, BearerPrefix)
    THEN [pass |-> FALSE,
          r |-> respondWithError(StatusUnauthorized, "Invalid authorization format")]
    ELSE IF TrimPrefix(authHeader, BearerPrefix) = <<>>
    THEN [pass |-> FALSE,
          r |-> respondWithError(StatusUnauthorized, "Token required")]
    ELSE IF TrimPrefix(authHeader, BearerPrefix) \notin DOMAIN validTokens
    THEN [pass |-> FALSE,
          r |-> respondWithError(StatusUnauthorized, "Invalid or expired token")]
    ELSE IF now > validTokens[TrimPrefix(authHeader, BearerPrefix)]
    THEN [pass |-> FALSE,
          r |-> respondWithError(StatusUnauthorized, "Invalid or expired token")]
    ELSE [pass |-> TRUE, r |-> respondWithJSON(StatusOK, "", NoBody)]

\* a faulty gate, for comparison: no test for an empty token, which then
\* falls through to the registry lookup
authMiddlewareNoEmptyTest(authHeader) ==
    IF authHeader = <<>>
    THEN [pass |-> FALSE,
          r |-> respondWithError(StatusUnauthorized, "Authorization header required")]
    ELSE IF ~HasPrefix(authHeader, BearerPrefix)
    THEN [pass |-> FALSE,
          r |-> respondWithError(StatusUnauthorized, "Invalid authorization format")]
    ELSE IF TrimPrefix(authHeader, BearerPrefix) \notin DOMAIN validTokens
    THEN [pass |-> FALSE,
          r |-> respondWithError(StatusUnauthorized, "Invalid or expired token")]
    ELSE [pass |-> TRUE, r |-> respondWithJSON(StatusOK, "", NoBody)]

\* authMiddleware: the decision of the bearer gate on an Authorization header;
\* pass = TRUE hands the request to the wrapped handler
authMiddleware(authHeader) ==
    IF authHeader = <<>>
    THEN [pass |-> FALSE,
          r |-> respondWithError(StatusUnauthorized, "Authorization header required")]
    ELSE IF ~HasPrefix(authHeader, BearerPrefix)
    THEN [pass |-> FALSE,
          r |-> respondWithError(StatusUnauthorized, "Invalid authorization format")]
    ELSE IF TrimPrefix(authHeader, BearerPrefix) = <<>>
    THEN [pass |-> FALSE,
          r |-> respondWithError(StatusUnauthorized, "Token required")]
    ELSE IF TrimPrefix(authHeader, BearerPrefix) \notin DOMAIN validTokens
    THEN [pass |-> FALSE,
          r |-> respondWithError(StatusUnauthorized, "Invalid or expired token")]
    ELSE [pass |-> TRUE, r |-> respondWithJSON(StatusOK, "", NoBody)]

\* a faulty credential loop, for comparison: the password is not compared
userFoundByName(loginReq) ==
    \E i \in 1..Len(Users) : Users[i].Username = loginReq.Username

\* the credential loop of login
userFound(loginReq) ==
    \E i \in 1..Len(Users) :
        Users[i].Username = loginReq.Username /\ Users[i].Password = loginReq.Password

\* login: the response and the registry it leaves.  A body that does not
\* decode is loginReq.ok = FALSE.
login(loginReq) ==
    IF ~loginReq.ok
    THEN [r |-> respondWithError(StatusBadRequest, "Invalid request payload"),
          validTokens |-> validTokens, nextUuid |-> nextUuid]
    ELSE IF ~userFound(loginReq)
    THEN [r |-> respondWithError(StatusUnauthorized, "Invalid username or password"),
          validTokens |-> validTokens, nextUuid |-> nextUuid]
    ELSE [r |-> respondWithJSON(StatusOK, "", Uuid(nextUuid + 1)),
          validTokens |-> MapPut(validTokens, Uuid(nextUuid + 1), now + TokenTTL),
          nextUuid |-> nextUuid + 1]

\* the token logout removes
logoutToken(authHeader) == TrimPrefix(authHeader, BearerPrefix)

\* a different logout, for comparison: a token that is not in the registry
\* is an error
logoutRejectsUnknown(authHeader) ==
    IF authHeader = <<>>
    THEN [r |-> respondWithError(StatusUnauthorized, "Authorization header required"),
          validTokens |-> validTokens]
    ELSE IF logoutToken(authHeader) = <<>>
    THEN [r |-> respondWithError(StatusUnauthorized, "Token required"),
          validTokens |-> validTokens]
    ELSE IF logoutToken(authHeader) \notin DOMAIN validTokens
    THEN [r |-> respondWithError(StatusUnauthorized, "Invalid or expired token"),
          validTokens |-> validTokens]
    ELSE [r |-> respondWithJSON(StatusOK, "Logged out successfully", NoBody),
          validTokens |-> MapDelete(validTokens, logoutToken(authHeader))]

\* a faulty logout, for comparison: the answer of logout without the delete
logoutKeepsEntry(authHeader) ==
    IF authHeader = <<>>
    THEN [r |-> respondWithError(StatusUnauthorized, "Authorization header required"),
          validTokens |-> validTokens]
    ELSE IF logoutToken(authHeader) = <<>>
    THEN [r |-> respondWithError(StatusUnauthorized, "Token required"),
          validTokens |-> validTokens]
    ELSE [r |-> respondWithJSON(StatusOK, "Logged out successfully", NoBody),
          validTokens |-> validTokens]

\* logout: the response and the registry it leaves
logout(authHeader) ==
    IF authHeader = <<>>
    THEN [r |-> respondWithError(StatusUnauthorized, "Authorization header required"),
          validTokens |-> validTokens]
    ELSE IF logoutToken(authHeader) = <<>>
    THEN [r |-> respondWithError(StatusUnauthorized, "Token required"),
          validTokens |-> validTokens]
    ELSE [r |-> respondWithJSON(StatusOK, "Logged out successfully", NoBody),
          validTokens |-> MapDelete(validTokens, logoutToken(authHeader))]

\* a faulty sweep, for comparison: !now.Before(expiry) in place of
\* now.After(expiry), so an entry expiring at t goes too
sweepRemovesAtExpiry(m, t) == [x \in {k \in DOMAIN m : ~(t >= m[k])} |-> m[x]]

\* a faulty sweep, for comparison: an entry goes only when it expired more
\* than a tick before t
sweepKeepsJustExpired(m, t) == [x \in {k \in DOMAIN m : ~(t > m[k] + 1)} |-> m[x]]

\* one pass of cleanExpiredTokens at time t: now.After(expiry) entries go
sweep(m, t) == [x \in {k \in DOMAIN m : ~(t > m[k])} |-> m[x]]

(***************************************************************************)
(* Hero store, shared helpers.                                             *)
(***************************************************************************)
\* a faulty validation, for comparison: only the name is looked at
fieldsMissingNameOnly(req) == req.Name = ""

\* the "Validate required fields" test of createHero and updateHero
fieldsMissing(req) == req.Name = "" \/ req.Role = "" \/ req.Difficulty = ""

\* positions of the rows / slice elements whose ID is id
Matching(rows, id) == {i \in 1..Len(rows) : rows[i].ID = id}

Min(S) == CHOOSE x \in S : \A y \in S : x <= y

\* rows with position i removed: DELETE of one row; append(heroes[:i], heroes[i+1:]...)
RemoveAt(rows, i) == SubSeq(rows, 1, i - 1) \o SubSeq(rows, i + 1, Len(rows))

\* ORDER BY id
RECURSIVE OrderByID(_)
OrderByID(rows) ==
    IF rows = <<>> THEN <<>>
    ELSE LET i == CHOOSE k \in 1..Len(rows) :
                      \A j \in 1..Len(rows) : rows[k].ID <= rows[j].ID
         IN  <<rows[i]>> \o OrderByID(RemoveAt(rows, i))

StoreResult(r, rows, next) == [r |-> r, heroes |-> rows, nextID |-> next]

(***************************************************************************)
(* Durable build: one SQL statement per handler.  dbErr = TRUE is a        *)
(* statement that fails (connection or query failure); it leaves the       *)
(* table as it was.                                                        *)
(***************************************************************************)
\* INSERT INTO heroes ... RETURNING: the row the table builds
InsertedRow(req) ==
    [ID |-> nextID, Name |-> req.Name, Role |-> req.Role, Difficulty |-> req.Difficulty,
     CreatedAt |-> now, UpdatedAt |-> now]

\* UPDATE heroes SET name, role, difficulty ... with the updated_at trigger
UpdatedRow(row, req) ==
    [row EXCEPT !.Name = req.Name, !.Role = req.Role, !.Difficulty = req.Difficulty,
                !.UpdatedAt = now]

createHero(req, dbErr) ==
    IF ~req.ok
    THEN StoreResult(respondWithError(StatusBadRequest, "Invalid request payload"),
                     heroes, nextID)
    ELSE IF fieldsMissing(req)
    THEN StoreResult(respondWithError(StatusBadRequest,
                                      "Name, role, and difficulty are required"),
                     heroes, nextID)
    ELSE IF dbErr
    THEN StoreResult(respondWithError(StatusInternalServerError, "Failed to create hero"),
                     heroes, nextID)
    ELSE StoreResult(respondWithJSON(StatusCreated, "", InsertedRow(req)),
                     Append(heroes, InsertedRow(req)), nextID + 1)

updateHero(id, req, dbErr) ==
    IF ~Atoi(id).ok
    THEN StoreResult(respondWithError(StatusBadRequest, "Invalid hero ID"), heroes, nextID)
    ELSE IF ~req.ok
    THEN StoreResult(respondWithError(StatusBadRequest, "Invalid request payload"),
                     heroes, nextID)
    ELSE IF fieldsMissing(req)
    THEN StoreResult(respondWithError(StatusBadRequest,
                                      "Name, role, and difficulty are required"),
                     heroes, nextID)
    ELSE IF dbErr
    THEN StoreResult(respondWithError(StatusInternalServerError, "Failed to update hero"),
                     heroes, nextID)
    ELSE IF Matching(heroes, Atoi(id).v) = {}
    THEN StoreResult(respondWithError(StatusNotFound, "Hero not found"), heroes, nextID)
    ELSE LET i == Min(Matching(heroes, Atoi(id).v))
             row == UpdatedRow(heroes[i], req)
         IN  StoreResult(respondWithJSON(StatusOK, "", row),
                         [heroes EXCEPT ![i] = row], nextID)

deleteHero(id, dbErr) ==
    IF ~Atoi(id).ok
    THEN StoreResult(respondWithError(StatusBadRequest, "Invalid hero ID"), heroes, nextID)
    ELSE IF dbErr
    THEN StoreResult(respondWithError(StatusInternalServerError, "Failed to delete hero"),
                     heroes, nextID)
    ELSE IF Matching(heroes, Atoi(id).v) = {}
    THEN StoreResult(respondWithError(StatusNotFound, "Hero not found"), heroes, nextID)
    ELSE StoreResult(respondWithJSON(StatusNoContent, "", NoBody),
                     RemoveAt(heroes, Min(Matching(heroes, Atoi(id).v))), nextID)

\* a faulty lookup, for comparison: SELECT without the WHERE clause
getHeroByIDAnyRow(id, dbErr) ==
    IF ~Atoi(id).ok
    THEN respondWithError(StatusBadRequest, "Invalid hero ID")
    ELSE IF dbErr
    THEN respondWithError(StatusInternalServerError, "Failed to fetch hero")
    ELSE IF heroes = <<>>
    THEN respondWithError(StatusNotFound, "Hero not found")
    ELSE respondWithJSON(StatusOK, "", heroes[1])

getHeroByID(id, dbErr) ==
    IF ~Atoi(id).ok
    THEN respondWithError(StatusBadRequest, "Invalid hero ID")
    ELSE IF dbErr
    THEN respondWithError(StatusInternalServerError, "Failed to fetch hero")
    ELSE IF Matching(heroes, Atoi(id).v) = {}
    THEN respondWithError(StatusNotFound, "Hero not found")
    ELSE respondWithJSON(StatusOK, "", heroes[Min(Matching(heroes, Atoi(id).v))])

getHeroes(dbErr) ==
    IF dbErr
    THEN respondWithError(StatusInternalServerError, "Failed to fetch heroes")
    ELSE respondWithJSON(StatusOK, "", OrderByID(heroes))

(***************************************************************************)
(* In-memory builds: the heroes slice and the nextID counter.              *)
(***************************************************************************)
\* the Hero that json.Decode fills from a body: the body's "id" included
DecodedHero(req) ==
    [ID |-> req.ID, Name |-> req.Name, Role |-> req.Role, Difficulty |-> req.Difficulty]

\* newHero after "newHero.ID = strconv.Itoa(nextID)", for a counter value n
NewHeroMem(req, n) == [DecodedHero(req) EXCEPT !.ID = Itoa(n)]

\* updatedHero after "updatedHero.ID = id"
UpdatedHeroMem(id, req) == [DecodedHero(req) EXCEPT !.ID = id]

createHeroMem(req) ==
    IF ~req.ok
    THEN StoreResult(respondWithError(StatusBadRequest, "Invalid request payload"),
                     heroes, nextID)
    ELSE IF fieldsMissing(req)
    THEN StoreResult(respondWithError(StatusBadRequest,
                                      "Name, role, and difficulty are required"),
                     heroes, nextID)
    ELSE StoreResult(respondWithJSON(StatusCreated, "", NewHeroMem(req, nextID)),
                     Append(heroes, NewHeroMem(req, nextID)), nextID + 1)

\* a different updateHero, for comparison: the lookup before the validation
updateHeroMemLookupFirst(id, req) ==
    IF Matching(heroes, id) = {}
    THEN StoreResult(respondWithError(StatusNotFound, "Hero not found"), heroes, nextID)
    ELSE IF ~req.ok
    THEN StoreResult(respondWithError(StatusBadRequest, "Invalid request payload"),
                     heroes, nextID)
    ELSE IF fieldsMissing(req)
    THEN StoreResult(respondWithError(StatusBadRequest,
                                      "Name, role, and difficulty are required"),
                     heroes, nextID)
    ELSE StoreResult(respondWithJSON(StatusOK, "", UpdatedHeroMem(id, req)),
                     [heroes EXCEPT ![Min(Matching(heroes, id))] = UpdatedHeroMem(id, req)],
                     nextID)

updateHeroMem(id, req) ==
    IF ~req.ok
    THEN StoreResult(respondWithError(StatusBadRequest, "Invalid request payload"),
                     heroes, nextID)
    ELSE IF fieldsMissing(req)
    THEN StoreResult(respondWithError(StatusBadRequest,
                                      "Name, role, and difficulty are required"),
                     heroes, nextID)
    ELSE IF Matching(heroes, id) = {}
    THEN StoreResult(respondWithError(StatusNotFound, "Hero not found"), heroes, nextID)
    ELSE StoreResult(respondWithJSON(StatusOK, "", UpdatedHeroMem(id, req)),
                     [heroes EXCEPT ![Min(Matching(heroes, id))] = UpdatedHeroMem(id, req)],
                     nextID)

deleteHeroMem(id) ==
    IF Matching(heroes, id) = {}
    THEN StoreResult(respondWithError(StatusNotFound, "Hero not found"), heroes, nextID)
    ELSE StoreResult(respondWithJSON(StatusOK, "Hero deleted successfully", NoBody),
                     RemoveAt(heroes, Min(Matching(heroes, id))), nextID)

getHeroesMem == respondWithJSON(StatusOK, "", heroes)

(***************************************************************************)
(* Router: which handler a request reaches, and behind which middleware.   *)
(***************************************************************************)
\* authMiddleware(next): the gate's 401, or the wrapped handler's result
Gated(authHeader, result) ==
    IF authMiddleware(authHeader).pass THEN result
    ELSE StoreResult(authMiddleware(authHeader).r, heroes, nextID)

\* a different router, for comparison: createHero registered without the gate
routePostHeroesUngated(authHeader, req, dbErr) ==
    IF variant = "durable" THEN createHero(req, dbErr) ELSE createHeroMem(req)

\* POST /api/heroes
routePostHeroes(authHeader, req, dbErr) ==
    CASE variant = "durable" -> Gated(authHeader, createHero(req, dbErr))
      [] variant = "memoryAuth" -> Gated(authHeader, createHeroMem(req))
      [] variant = "memory" -> createHeroMem(req)

\* PUT /api/heroes/{id}
routePutHero(authHeader, id, req, dbErr) ==
    CASE variant = "durable" -> Gated(authHeader, updateHero(id, req, dbErr))
      [] variant = "memoryAuth" -> Gated(authHeader, updateHeroMem(id, req))
      [] variant = "memory" -> updateHeroMem(id, req)

\* a different router, for comparison: deleteHero registered without the gate
routeDeleteHeroUngated(authHeader, id, dbErr) ==
    IF variant = "durable" THEN deleteHero(id, dbErr) ELSE deleteHeroMem(id)

\* DELETE /api/heroes/{id}
routeDeleteHero(authHeader, id, dbErr) ==
    CASE variant = "durable" -> Gated(authHeader, deleteHero(id, dbErr))
      [] variant = "memoryAuth" -> Gated(authHeader, deleteHeroMem(id))
      [] variant = "memory" -> deleteHeroMem(id)

\* GET /api/heroes
routeGetHeroes(dbErr) ==
    IF variant = "durable" THEN getHeroes(dbErr) ELSE getHeroesMem

\* the request stops at the gate: mux.Vars and the body are never read
Rejected(authHeader) == HasAuth(variant) /\ ~authMiddleware(authHeader).pass

\* a different router, for comparison: logout wrapped in authMiddleware
routeLogoutGated(authHeader) ==
    IF authMiddleware(authHeader).pass THEN logout(authHeader)
    ELSE [r |-> authMiddleware(authHeader).r, validTokens |-> validTokens]

\* POST /api/logout: registered without the middleware
routeLogout(authHeader) == logout(authHeader)

\* the key under which the store holds the hero a path id names
PathKey(id) == IF variant = "durable" THEN Atoi(id).v ELSE id

(***************************************************************************)
(* Requests the clients send.                                              *)
(***************************************************************************)
\* Authorization headers: none, "Bearer " alone, a known or forged token
\* with the prefix, and a known token without it.  uuid.New() is taken to
\* be unguessable: no header carries a token before login has returned it.
Headers ==
    {<<>>, BearerPrefix}
    \cup {BearerPrefix \o t : t \in IssuedTokens \cup {ForgedToken}}
    \cup IssuedTokens

\* {id} path segments: a seeded hero, the ids the creates will use (which no
\* hero has before the create or after its delete), a padded number, a
\* non-number; AbsentId is an id no hero ever has
AbsentId == <<"9", "9", "9", "9", "9", "9">>

PathIds ==
    {<<"1">>, <<"0", "4">>, <<"a", "b", "c">>}
    \cup {Itoa(n) : n \in FirstID..(FirstID + MaxCreates - 1)}

\* a decodable body with no "id" key
HeroReq(name, role, difficulty) ==
    [ok |-> TRUE, ID |-> <<>>, Name |-> name, Role |-> role, Difficulty |-> difficulty]

\* the same body with the key "id" added
WithID(req, id) == [req EXCEPT !.ID = id]

\* a body json.Decode rejects
BadJSON == [ok |-> FALSE, ID |-> <<>>, Name |-> "", Role |-> "", Difficulty |-> ""]

HeroBodies ==
    {BadJSON,
     HeroReq("Zilong", "Fighter", "Mudah"),
     WithID(HeroReq("Layla", "Marksman", "Sedang"), <<"1">>),
     HeroReq("", "Fighter", "Mudah"),
     HeroReq("Zilong", "", "Mudah"),
     HeroReq("Zilong", "Fighter", "")}

LoginReq(username, password) == [ok |-> TRUE, Username |-> username, Password |-> password]

LoginBodies ==
    {[ok |-> FALSE, Username |-> "", Password |-> ""],
     LoginReq("user1", "12345"),
     LoginReq("user2", "mahauser"),
     LoginReq("user1", "mahauser"),
     LoginReq("User1", "12345"),
     LoginReq("", "")}

\* outcomes of the storage call: only the durable build makes one
DbErrs == IF variant = "durable" THEN BOOLEAN ELSE {FALSE}

(***************************************************************************)
(* Initial state: main() has run.                                          *)
(***************************************************************************)
\* initHeroes
initHeroes ==
    <<[ID |-> <<"1">>, Name |-> "Alucard", Role |-> "Fighter", Difficulty |-> "Mudah"],
      [ID |-> <<"2">>, Name |-> "Miya", Role |-> "Marksman", Difficulty |-> "Mudah"],
      [ID |-> <<"3">>, Name |-> "Fanny", Role |-> "Assassin", Difficulty |-> "Sulit"]>>

\* the statements of a startup that can fail: 0 is the row count query, i in
\* 1..3 the INSERT of the i-th seed row; NoFailure is a startup whose
\* statements all succeed
NoFailure == Len(initHeroes) + 1

StartupFailures == 0..NoFailure

\* INSERT INTO heroes (name, role, difficulty) of the i-th seed row
SeedRow(i, id) ==
    [ID |-> id, Name |-> initHeroes[i].Name, Role |-> initHeroes[i].Role,
     Difficulty |-> initHeroes[i].Difficulty, CreatedAt |-> now, UpdatedAt |-> now]

StartupResult(err, msg, rows, next) ==
    [err |-> err, msg |-> msg, heroes |-> rows, nextID |-> next]

\* a different seeding, for comparison: no look at the row count
InsertInitialDataNoCount(rows, next, failAt) ==
    IF failAt = 0
    THEN StartupResult(TRUE, "failed to check existing data", rows, next)
    ELSE LET k == IF failAt < NoFailure THEN failAt - 1 ELSE Len(initHeroes)
         IN  StartupResult(failAt < NoFailure,
                           IF failAt < NoFailure THEN "failed to insert hero"
                           ELSE "Initial data inserted successfully",
                           rows \o [i \in 1..k |-> SeedRow(i, next + i - 1)], next + k)

\* InsertInitialData on the table "rows" whose id sequence is at "next": the
\* inserts are separate statements, and the first that fails ends the
\* function with the rows inserted so far in the table
InsertInitialData(rows, next, failAt) ==
    IF failAt = 0
    THEN StartupResult(TRUE, "failed to check existing data", rows, next)
    ELSE IF Len(rows) > 0
    THEN StartupResult(FALSE, "Initial data already exists, skipping insertion", rows, next)
    ELSE LET k == IF failAt < NoFailure THEN failAt - 1 ELSE Len(initHeroes)
         IN  StartupResult(failAt < NoFailure,
                           IF failAt < NoFailure THEN "failed to insert hero"
                           ELSE "Initial data inserted successfully",
                           rows \o [i \in 1..k |-> SeedRow(i, next + i - 1)], next + k)

Workers == {1, 2}

\* the goroutine started by "go cleanExpiredTokens()"
Sweeper == 0

Goroutines == Workers \cup {Sweeper}

NoAccess == [op |-> "none", token |-> <<>>, exists |-> FALSE]

NoHero == <<>>

Idle == [op |-> "none", hdr |-> <<>>, id |-> <<>>, code |-> 0, msg |-> "", body |-> NoBody]

Response(op, hdr, id, r) ==
    [op |-> op, hdr |-> hdr, id |-> id, code |-> r.code, msg |-> r.msg, body |-> r.body]

\* what is kept of a request to a protected route: its header when the gate
\* stopped it, else the path id its handler read
Protected(op, authHeader, id, r) ==
    IF Rejected(authHeader) THEN Response(op, authHeader, <<>>, r)
    ELSE Response(op, <<>>, id, r)

InitVariant(v) ==
    /\ variant = v
    /\ validTokens = EmptyMap
    /\ nextUuid = 0
    /\ now = 0
    /\ lastSweep = 0
    /\ heroes = IF v = "durable" THEN InsertInitialData(<<>>, 1, NoFailure).heroes
                ELSE initHeroes
    /\ nextID = FirstID
    /\ tokenMutex = [w |-> {}, r |-> {}]
    /\ inflight = [g \in Goroutines |-> NoAccess]
    /\ pc = [g \in Goroutines |-> "idle"]
    /\ newHero = [w \in Workers |-> NoHero]
    /\ oldHeroes = [w \in Workers |-> <<>>]
    /\ foundAt = [w \in Workers |-> 0]
    /\ resp = Idle
    /\ revoked = {}
    /\ created = EmptyMap
    /\ deleted = {}
    /\ acked = EmptyMap

Init == \E v \in Variants : InitVariant(v)

(***************************************************************************)
(* Requests handled one at a time.                                         *)
(***************************************************************************)
Login(loginReq) ==
    \E o \in {login(loginReq)} :
    /\ HasAuth(variant)
    /\ validTokens' = o.validTokens
    /\ nextUuid' = o.nextUuid
    /\ resp' = Response("login", <<>>, <<>>, o.r)
    /\ UNCHANGED <<variant, lockVars, clockVars, storeVars, workerVars, historyVars>>

Logout(authHeader) ==
    \E o \in {routeLogout(authHeader)} :
    /\ HasAuth(variant)
    /\ validTokens' = o.validTokens
    /\ resp' = Response("logout", authHeader, <<>>, o.r)
    /\ revoked' = IF o.r.code = StatusOK
                  THEN revoked \cup {logoutToken(authHeader)} ELSE revoked
    /\ UNCHANGED <<variant, lockVars, nextUuid, clockVars, storeVars, workerVars, created, deleted, acked>>

CreateHero(authHeader, req, dbErr) ==
    \E o \in {routePostHeroes(authHeader, req, dbErr)} :
    /\ o.nextID <= FirstID + MaxCreates
    /\ heroes' = o.heroes
    /\ nextID' = o.nextID
    /\ resp' = Protected("create", authHeader, <<>>, o.r)
    /\ created' = IF o.r.code = StatusCreated
                  THEN MapPut(created, o.r.body.ID, o.r.body) ELSE created
    /\ acked' = IF o.r.code = StatusCreated
                THEN MapPut(acked, o.r.body.ID, o.r.body) ELSE acked
    /\ UNCHANGED <<variant, lockVars, authVars, clockVars, workerVars, revoked, deleted>>

UpdateHero(authHeader, id, req, dbErr) ==
    \E o \in {routePutHero(authHeader, id, req, dbErr)} :
    /\ heroes' = o.heroes
    /\ nextID' = o.nextID
    /\ resp' = Protected("update", authHeader, id, o.r)
    /\ created' = IF o.r.code = StatusOK THEN MapDelete(created, PathKey(id)) ELSE created
    /\ acked' = IF o.r.code = StatusOK THEN MapPut(acked, PathKey(id), o.r.body) ELSE acked
    /\ UNCHANGED <<variant, lockVars, authVars, clockVars, workerVars, revoked, deleted>>

DeleteHero(authHeader, id, dbErr) ==
    \E o \in {routeDeleteHero(authHeader, id, dbErr)} :
    \E done \in {o.r.code \in {StatusNoContent, StatusOK}} :
    /\ heroes' = o.heroes
    /\ nextID' = o.nextID
    /\ resp' = Protected("delete", authHeader, id, o.r)
    /\ created' = IF done THEN MapDelete(created, PathKey(id)) ELSE created
    /\ deleted' = IF done THEN deleted \cup {PathKey(id)} ELSE deleted
    /\ acked' = IF done THEN MapDelete(acked, PathKey(id)) ELSE acked
    /\ UNCHANGED <<variant, lockVars, authVars, clockVars, workerVars, revoked>>

GetHeroByID(id, dbErr) ==
    /\ variant = "durable"
    /\ resp' = Response("get", <<>>, id, getHeroByID(id, dbErr))
    /\ UNCHANGED <<variant, lockVars, authVars, clockVars, storeVars, workerVars, historyVars>>

GetHeroes(dbErr) ==
    /\ resp' = Response("list", <<>>, <<>>, routeGetHeroes(dbErr))
    /\ UNCHANGED <<variant, lockVars, authVars, clockVars, storeVars, workerVars, historyVars>>

\* corsMiddleware on an OPTIONS request: 200, no handler runs
Options ==
    /\ resp' = Response("options", <<>>, <<>>, respondWithJSON(StatusOK, "", NoBody))
    /\ UNCHANGED <<variant, lockVars, authVars, clockVars, storeVars, workerVars, historyVars>>

\* time passes
Tick(d) ==
    /\ now' = now + d
    /\ resp' = Idle
    /\ UNCHANGED <<variant, lockVars, authVars, lastSweep, storeVars, workerVars, historyVars>>

\* cleanExpiredTokens: one iteration of the loop, once time.Sleep has returned
cleanExpiredTokens ==
    /\ HasAuth(variant)
    /\ now >= lastSweep + SweepInterval
    /\ validTokens' = sweep(validTokens, now)
    /\ lastSweep' = now
    /\ resp' = Idle
    /\ UNCHANGED <<variant, lockVars, nextUuid, now, storeVars, workerVars, historyVars>>

\* the coarse clock: a token lifetime and one tick at a time
CoarseTick ==
    /\ now + TokenTTL + 1 <= MaxDays * (TokenTTL + 1)
    /\ Tick(TokenTTL + 1)

(***************************************************************************)
(* Spec: the hero store of the three builds behind its router, requests    *)
(* handled one at a time, with no header or with the token of a login.     *)
(* Logout, the clock and the sweep are explored in SpecAuth.               *)
(***************************************************************************)
TokenHeaders == {BearerPrefix \o t : t \in IssuedTokens}

\* headers with which a request can reach a store handler
OpenHeaders == IF HasAuth(variant) THEN TokenHeaders ELSE {<<>>}

StoreHeaders == {<<>>} \cup TokenHeaders

\* a storage failure is drawn only where the handler reaches its statement
DbErrsFor(req) == IF req.ok /\ ~fieldsMissing(req) THEN DbErrs ELSE {FALSE}

Next ==
    \/ \E loginReq \in LoginBodies : Login(loginReq) /\ nextUuid' <= MaxStoreLogins
    \/ \E authHeader \in StoreHeaders, req \in HeroBodies : \E dbErr \in DbErrsFor(req) :
          CreateHero(authHeader, req, dbErr)
    \/ \E authHeader \in OpenHeaders, id \in PathIds, req \in HeroBodies :
          \E dbErr \in DbErrsFor(req) : UpdateHero(authHeader, id, req, dbErr)
    \/ \E authHeader \in OpenHeaders, id \in PathIds, dbErr \in DbErrs :
          DeleteHero(authHeader, id, dbErr)
    \/ \E id \in PathIds : HasAuth(variant) /\
          \/ UpdateHero(<<>>, id, HeroReq("Zilong", "Fighter", "Mudah"), FALSE)
          \/ DeleteHero(<<>>, id, FALSE)
    \/ \E id \in PathIds, dbErr \in DbErrs : GetHeroByID(id, dbErr)
    \/ \E dbErr \in DbErrs : GetHeroes(dbErr)
    \/ Options

Spec == Init /\ [][Next]_vars

(***************************************************************************)
(* SpecAuth: the session registry of the two builds that have one, with    *)
(* every kind of header; the protected requests sent are ones whose        *)
(* handler leaves the store alone (an empty field, an id no hero has).     *)
(***************************************************************************)
InitAuth == \E v \in {"durable", "memoryAuth"} : InitVariant(v)

NextAuth ==
    \/ \E loginReq \in LoginBodies : Login(loginReq) /\ nextUuid' <= MaxLogins
    \/ \E authHeader \in Headers : Logout(authHeader)
    \/ \E authHeader \in Headers : CreateHero(authHeader, HeroReq("", "Fighter", "Mudah"), FALSE)
    \/ \E authHeader \in Headers :
          UpdateHero(authHeader, AbsentId, HeroReq("Zilong", "Fighter", "Mudah"), FALSE)
    \/ \E authHeader \in Headers : DeleteHero(authHeader, AbsentId, FALSE)
    \/ Options
    \/ CoarseTick
    \/ cleanExpiredTokens

SpecAuth == InitAuth /\ [][NextAuth]_vars

(***************************************************************************)
(* SpecSweep: the registry under a clock of single ticks.  The sweep loop  *)
(* sleeps SweepInterval ticks (time.Sleep: at least that long) and "runs": *)
(* it wakes no more than MaxLate ticks after its sleep is over.            *)
(***************************************************************************)
SweepHorizon == MaxLoginTime + TokenTTL + 2 * (SweepInterval + MaxLate)

FineTick ==
    /\ now + 1 <= lastSweep + SweepInterval + MaxLate
    /\ now + 1 <= SweepHorizon
    /\ Tick(1)

NextSweep ==
    \/ /\ now <= MaxLoginTime
       /\ Login(LoginReq("user1", "12345"))
       /\ nextUuid' <= MaxLogins
    \/ \E authHeader \in TokenHeaders :
          CreateHero(authHeader, HeroReq("", "Fighter", "Mudah"), FALSE)
    \/ FineTick
    \/ cleanExpiredTokens

SpecSweep == InitAuth /\ [][NextSweep]_vars

(***************************************************************************)
(* SpecMem: the in-memory builds with requests handled concurrently, one   *)
(* goroutine per request and no lock around heroes and nextID.  createHero *)
(* is taken statement by statement; the reads and writes of the shared     *)
(* variables interleave.                                                   *)
(***************************************************************************)
\* createHero up to "newHero.ID = strconv.Itoa(nextID)": the gate, the
\* decoding, the validation, the read of nextID
CreateBegin(w, authHeader, req) ==
    \E o \in {routePostHeroes(authHeader, req, FALSE)} :
    /\ pc[w] = "idle"
    /\ IF o.r.code = StatusCreated
       THEN /\ pc' = [pc EXCEPT ![w] = "incr"]
            /\ newHero' = [newHero EXCEPT ![w] = o.r.body]
            /\ resp' = Idle
       ELSE /\ resp' = Protected("create", authHeader, <<>>, o.r)
            /\ UNCHANGED <<pc, newHero>>
    /\ UNCHANGED <<variant, lockVars, authVars, clockVars, storeVars, oldHeroes, foundAt, historyVars>>

\* "nextID++": an unsynchronised read-modify-write; the value written is one
\* more than the counter as it is now or as this request read it
CreateIncr(w) ==
    /\ pc[w] = "incr"
    /\ \E n \in {nextID, Atoi(newHero[w].ID).v} : nextID' = n + 1
    /\ pc' = [pc EXCEPT ![w] = "append"]
    /\ resp' = Idle
    /\ UNCHANGED <<variant, lockVars, authVars, clockVars, heroes, newHero, oldHeroes, foundAt,
                   historyVars>>

\* "heroes = append(heroes, newHero)", first half: append reads the slice
\* (and, the slice being full, copies it to a new array)
CreateAppend(w) ==
    /\ pc[w] = "append"
    /\ oldHeroes' = [oldHeroes EXCEPT ![w] = heroes]
    /\ pc' = [pc EXCEPT ![w] = "store"]
    /\ resp' = Idle
    /\ UNCHANGED <<variant, lockVars, authVars, clockVars, storeVars, newHero, foundAt, historyVars>>

\* second half: the result is stored in heroes, and the 201.  What is stored
\* is the slice as append read it, or as it is now when nothing intervened
\* that the copy missed, with newHero at the end.
CreateStore(w) ==
    /\ pc[w] = "store"
    /\ \E rows \in {oldHeroes[w], heroes} : heroes' = Append(rows, newHero[w])
    /\ pc' = [pc EXCEPT ![w] = "idle"]
    /\ newHero' = [newHero EXCEPT ![w] = NoHero]
    /\ oldHeroes' = [oldHeroes EXCEPT ![w] = <<>>]
    /\ resp' = Response("create", <<>>, <<>>,
                        respondWithJSON(StatusCreated, "", newHero[w]))
    /\ created' = MapPut(created, newHero[w].ID, newHero[w])
    /\ acked' = MapPut(acked, newHero[w].ID, newHero[w])
    /\ UNCHANGED <<variant, lockVars, authVars, clockVars, nextID, foundAt, revoked, deleted>>

\* updateHero up to "updatedHero.ID = id": the gate, the decoding, the
\* validation, the range loop that finds the id at index i
UpdateBegin(w, authHeader, id, req) ==
    \E o \in {routePutHero(authHeader, id, req, FALSE)} :
    /\ pc[w] = "idle"
    /\ IF o.r.code = StatusOK
       THEN /\ pc' = [pc EXCEPT ![w] = "write"]
            /\ newHero' = [newHero EXCEPT ![w] = o.r.body]
            /\ foundAt' = [foundAt EXCEPT ![w] = Min(Matching(heroes, id))]
            /\ resp' = Idle
       ELSE /\ resp' = Protected("update", authHeader, id, o.r)
            /\ UNCHANGED <<pc, newHero, foundAt>>
    /\ UNCHANGED <<variant, lockVars, authVars, clockVars, storeVars, oldHeroes, historyVars>>

\* "heroes[i] = updatedHero" and the 200; an index past the end of the
\* slice is a run-time panic, which net/http recovers: no response is written
UpdateWrite(w) ==
    /\ pc[w] = "write"
    /\ IF foundAt[w] <= Len(heroes)
       THEN /\ heroes' = [heroes EXCEPT ![foundAt[w]] = newHero[w]]
            /\ resp' = Response("update", <<>>, newHero[w].ID,
                                respondWithJSON(StatusOK, "", newHero[w]))
            /\ created' = MapDelete(created, newHero[w].ID)
            /\ acked' = MapPut(acked, newHero[w].ID, newHero[w])
       ELSE /\ resp' = Response("update", <<>>, newHero[w].ID,
                                respondWithJSON(0, "panic: index out of range", NoBody))
            /\ UNCHANGED <<heroes, created, acked>>
    /\ pc' = [pc EXCEPT ![w] = "idle"]
    /\ newHero' = [newHero EXCEPT ![w] = NoHero]
    /\ foundAt' = [foundAt EXCEPT ![w] = 0]
    /\ UNCHANGED <<variant, lockVars, authVars, clockVars, nextID, oldHeroes, revoked, deleted>>

InitMem == \E v \in {"memoryAuth", "memory"} : InitVariant(v)

\* {id} path segments of the concurrent requests: a seeded hero to update,
\* and to delete the seeded hero before it and the ids the creates will use
MemUpdateIds == {<<"2">>}

MemDeleteIds == {<<"1">>} \cup {Itoa(n) : n \in FirstID..(FirstID + MaxCreates - 1)}

MemBodies == {HeroReq("Zilong", "Fighter", "Mudah"), HeroReq("Layla", "", "Sedang")}

NextMem ==
    \/ Login(LoginReq("user1", "12345")) /\ nextUuid' <= MaxStoreLogins
    \/ \E w \in Workers, authHeader \in OpenHeaders, req \in MemBodies :
          nextID < FirstID + MaxCreates /\ CreateBegin(w, authHeader, req)
    \/ \E w \in Workers : CreateIncr(w)
    \/ \E w \in Workers : CreateAppend(w)
    \/ \E w \in Workers : CreateStore(w)
    \/ \E w \in Workers, authHeader \in OpenHeaders, id \in MemUpdateIds :
          UpdateBegin(w, authHeader, id,
                      WithID(HeroReq("Layla", "Marksman", "Sedang"), <<"1">>))
    \/ \E w \in Workers : UpdateWrite(w)
    \/ \E authHeader \in OpenHeaders, id \in MemDeleteIds : DeleteHero(authHeader, id, FALSE)
    \/ GetHeroes(FALSE)

SpecMem == InitMem /\ [][NextMem]_vars

(***************************************************************************)
(* SpecCreate: the in-memory builds with nothing but concurrent creates    *)
(* and lists, up to MaxRaceCreates values of the counter.                  *)
(***************************************************************************)
NextCreate ==
    \/ Login(LoginReq("user1", "12345")) /\ nextUuid' <= MaxStoreLogins
    \/ \E w \in Workers, authHeader \in OpenHeaders :
          /\ nextID < FirstID + MaxRaceCreates
          /\ CreateBegin(w, authHeader, HeroReq("Zilong", "Fighter", "Mudah"))
    \/ \E w \in Workers : CreateIncr(w)
    \/ \E w \in Workers : CreateAppend(w)
    \/ \E w \in Workers : CreateStore(w)
    \/ GetHeroes(FALSE)

SpecCreate == InitMem /\ [][NextCreate]_vars

(***************************************************************************)
(* SpecLock: the session registry with the requests and the sweep running  *)
(* concurrently, every access to validTokens taken apart into the lock     *)
(* call, the access and the unlock call.  tokenMutex is a sync.RWMutex:    *)
(* Lock waits until nobody holds it, RLock until no writer holds it.       *)
(***************************************************************************)
\* a faulty locking, for comparison: logout deletes under the read lock
lockCallReadInLogout(op) == IF op \in {"validate", "logout"} THEN "RLock" ELSE "Lock"

\* the lock call that precedes the access to validTokens in authMiddleware
\* ("validate"), login, logout and cleanExpiredTokens ("sweep")
lockCall(op) == IF op = "validate" THEN "RLock" ELSE "Lock"

Accessing(op, token) == [op |-> op, token |-> token, exists |-> FALSE]

\* authMiddleware up to tokenMutex.RLock(): the three tests on the header
GateBegin(g, authHeader) ==
    /\ HasAuth(variant)
    /\ pc[g] = "idle"
    /\ IF authHeader = <<>> \/ ~HasPrefix(authHeader, BearerPrefix)
            \/ TrimPrefix(authHeader, BearerPrefix) = <<>>
       THEN /\ resp' = Response("create", authHeader, <<>>, authMiddleware(authHeader).r)
            /\ UNCHANGED <<pc, inflight>>
       ELSE /\ inflight' = [inflight EXCEPT ![g] =
                               Accessing("validate", TrimPrefix(authHeader, BearerPrefix))]
            /\ pc' = [pc EXCEPT ![g] = "acquire"]
            /\ resp' = Idle
    /\ UNCHANGED <<variant, authVars, clockVars, storeVars, tokenMutex, newHero, oldHeroes,
                   foundAt, historyVars>>

\* login up to tokenMutex.Lock(): decoding, credentials, uuid.New()
LoginBegin(g, loginReq) ==
    /\ HasAuth(variant)
    /\ pc[g] = "idle"
    /\ IF ~loginReq.ok \/ ~userFound(loginReq)
       THEN /\ resp' = Response("login", <<>>, <<>>, login(loginReq).r)
            /\ UNCHANGED <<pc, inflight, nextUuid>>
       ELSE /\ nextUuid' = nextUuid + 1
            /\ inflight' = [inflight EXCEPT ![g] = Accessing("login", Uuid(nextUuid + 1))]
            /\ pc' = [pc EXCEPT ![g] = "acquire"]
            /\ resp' = Idle
    /\ UNCHANGED <<variant, validTokens, clockVars, storeVars, tokenMutex, newHero, oldHeroes,
                   foundAt, historyVars>>

\* logout up to tokenMutex.Lock(): the two tests on the header
LogoutBegin(g, authHeader) ==
    /\ HasAuth(variant)
    /\ pc[g] = "idle"
    /\ IF authHeader = <<>> \/ logoutToken(authHeader) = <<>>
       THEN /\ resp' = Response("logout", authHeader, <<>>, logout(authHeader).r)
            /\ UNCHANGED <<pc, inflight>>
       ELSE /\ inflight' = [inflight EXCEPT ![g] =
                               Accessing("logout", logoutToken(authHeader))]
            /\ pc' = [pc EXCEPT ![g] = "acquire"]
            /\ resp' = Idle
    /\ UNCHANGED <<variant, authVars, clockVars, storeVars, tokenMutex, newHero, oldHeroes,
                   foundAt, historyVars>>

\* cleanExpiredTokens: time.Sleep has returned
SweepWake ==
    /\ HasAuth(variant)
    /\ pc[Sweeper] = "idle"
    /\ now >= lastSweep + SweepInterval
    /\ inflight' = [inflight EXCEPT ![Sweeper] = Accessing("sweep", <<>>)]
    /\ pc' = [pc EXCEPT ![Sweeper] = "acquire"]
    /\ resp' = Idle
    /\ UNCHANGED <<variant, authVars, clockVars, storeVars, tokenMutex, newHero, oldHeroes,
                   foundAt, historyVars>>

\* tokenMutex.RLock() / tokenMutex.Lock() returns
Acquire(g) ==
    /\ pc[g] = "acquire"
    /\ tokenMutex.w = {}
    /\ IF lockCall(inflight[g].op) = "RLock"
       THEN tokenMutex' = [tokenMutex EXCEPT !.r = @ \cup {g}]
       ELSE tokenMutex.r = {} /\ tokenMutex' = [tokenMutex EXCEPT !.w = {g}]
    /\ pc' = [pc EXCEPT ![g] = "access"]
    /\ resp' = Idle
    /\ UNCHANGED <<variant, authVars, clockVars, storeVars, inflight, newHero, oldHeroes,
                   foundAt, historyVars>>

\* the statement(s) between the lock call and the unlock call
Access(g) ==
    /\ pc[g] = "access"
    /\ validTokens' =
         CASE inflight[g].op = "validate" -> validTokens
           [] inflight[g].op = "login" ->
                 MapPut(validTokens, inflight[g].token, now + TokenTTL)
           [] inflight[g].op = "logout" -> MapDelete(validTokens, inflight[g].token)
           [] inflight[g].op = "sweep" -> sweep(validTokens, now)
    /\ inflight' = [inflight EXCEPT ![g].exists = inflight[g].token \in DOMAIN validTokens]
    /\ pc' = [pc EXCEPT ![g] = "release"]
    /\ resp' = Idle
    /\ UNCHANGED <<variant, nextUuid, clockVars, storeVars, tokenMutex, newHero, oldHeroes,
                   foundAt, historyVars>>

\* tokenMutex.RUnlock() / tokenMutex.Unlock(), and the rest of the function:
\* the gate's 401 or the wrapped handler (here createHero on a body with an
\* empty field), the 200 of login and logout, the sweep back to sleep
Release(g) ==
    /\ pc[g] = "release"
    /\ tokenMutex' = [w |-> tokenMutex.w \ {g}, r |-> tokenMutex.r \ {g}]
    /\ resp' =
         CASE inflight[g].op = "validate" ->
                 IF inflight[g].exists
                 THEN Response("create", <<>>, <<>>,
                               respondWithError(StatusBadRequest,
                                                "Name, role, and difficulty are required"))
                 ELSE Response("create", BearerPrefix \o inflight[g].token, <<>>,
                               respondWithError(StatusUnauthorized,
                                                "Invalid or expired token"))
           [] inflight[g].op = "login" ->
                 Response("login", <<>>, <<>>,
                          respondWithJSON(StatusOK, "", inflight[g].token))
           [] inflight[g].op = "logout" ->
                 Response("logout", <<>>, <<>>,
                          respondWithJSON(StatusOK, "Logged out successfully", NoBody))
           [] inflight[g].op = "sweep" -> Idle
    /\ revoked' = IF inflight[g].op = "logout"
                  THEN revoked \cup {inflight[g].token} ELSE revoked
    /\ lastSweep' = IF inflight[g].op = "sweep" THEN now ELSE lastSweep
    /\ inflight' = [inflight EXCEPT ![g] = NoAccess]
    /\ pc' = [pc EXCEPT ![g] = "idle"]
    /\ UNCHANGED <<variant, authVars, now, storeVars, newHero, oldHeroes, foundAt,
                   created, deleted, acked>>

LockHeaders == {<<>>} \cup TokenHeaders

NextLock ==
    \/ \E g \in Workers, authHeader \in LockHeaders : GateBegin(g, authHeader)
    \/ \E g \in Workers, loginReq \in {LoginReq("user1", "12345"), LoginReq("user1", "")} :
          LoginBegin(g, loginReq) /\ nextUuid' <= MaxLockLogins
    \/ \E g \in Workers, authHeader \in LockHeaders : LogoutBegin(g, authHeader)
    \/ SweepWake
    \/ \E g \in Goroutines : Acquire(g)
    \/ \E g \in Goroutines : Access(g)
    \/ \E g \in Goroutines : Release(g)
    \/ CoarseTick

SpecLock == InitAuth /\ [][NextLock]_vars

(***************************************************************************)
(* Properties of the session registry (SpecAuth).                          *)
(***************************************************************************)
\* the pair of a login body is, field for field, an entry of the credential list
MatchesEntry(loginReq) ==
    \E i \in 1..Len(Users) :
        Users[i] = [Username |-> loginReq.Username, Password |-> loginReq.Password]

\* C1: a login whose username/password pair exactly matches an entry of the
\* credential list adds one token to the registry and returns it, and the
\* gate passes a request carrying that token in the state the login leaves;
\* a login whose pair matches no entry is answered 401 and leaves the
\* registry as it was.
C1_LoginIssuesToken ==
    [][\A loginReq \in LoginBodies : Login(loginReq) /\ loginReq.ok =>
          IF MatchesEntry(loginReq)
          THEN \E t \in {resp'.body} :
                  /\ resp'.code = StatusOK
                  /\ t \notin DOMAIN validTokens
                  /\ DOMAIN validTokens' = DOMAIN validTokens \cup {t}
                  /\ \A k \in DOMAIN validTokens : validTokens'[k] = validTokens[k]
                  /\ authMiddleware(BearerPrefix \o t)'.pass
          ELSE /\ resp'.code = StatusUnauthorized
               /\ validTokens' = validTokens
               /\ nextUuid' = nextUuid]_vars

\* a login has just succeeded and the gate passes its token
C1_Witness ==
    /\ resp.op = "login"
    /\ resp.code = StatusOK
    /\ resp.body \in DOMAIN validTokens
    /\ authMiddleware(BearerPrefix \o resp.body).pass

\* C2: once a logout of token t has completed, every POST, PUT or DELETE on
\* heroes sent with t is answered 401, whatever logins, other logouts and
\* sweeps came in between.
C2_RevokedTokenRejected ==
    \A t \in revoked :
        \A req \in HeroBodies, id \in PathIds \cup {AbsentId}, dbErr \in DbErrs :
            /\ routePostHeroes(BearerPrefix \o t, req, dbErr).r.code = StatusUnauthorized
            /\ routePutHero(BearerPrefix \o t, id, req, dbErr).r.code = StatusUnauthorized
            /\ routeDeleteHero(BearerPrefix \o t, id, dbErr).r.code = StatusUnauthorized

\* a token a login issued was logged out; after a later login and a sweep a
\* protected request carrying it has just been answered 401
C2_Witness ==
    \E t \in revoked \cap IssuedTokens :
        /\ resp.op \in {"create", "update", "delete"}
        /\ resp.hdr = BearerPrefix \o t
        /\ resp.code = StatusUnauthorized
        /\ DOMAIN validTokens # {}
        /\ lastSweep > 0

NamedToken(authHeader) ==
    IF authHeader # <<>> /\ authHeader[1] = "Bearer " THEN Tail(authHeader) ELSE authHeader

StoreKept(o) == o.heroes = heroes /\ o.nextID = nextID

\* one of name, role, difficulty of a decoded body is the empty string
HasEmptyField(req) == \E f \in {"Name", "Role", "Difficulty"} : req[f] = ""

\* headers of authenticated requests: "Bearer " and a token of the registry
PassingHeaders == {authHeader \in TokenHeaders : authMiddleware(authHeader).pass}

\* the path id names a stored hero
IdStored(id) ==
    /\ variant = "durable" => Atoi(id).ok
    /\ \E i \in 1..Len(heroes) : heroes[i].ID = PathKey(id)

C4_GetReturnsCreated ==
    variant = "durable" =>
        \A k \in DOMAIN created :
            \A id \in PathIds \cup {Itoa(k)} :
                Atoi(id).ok /\ Atoi(id).v = k =>
                    \E r \in {getHeroByID(id, FALSE)} :
                        /\ r.code = StatusOK
                        /\ r.body.ID = created[k].ID
                        /\ r.body.Name = created[k].Name
                        /\ r.body.Role = created[k].Role
                        /\ r.body.Difficulty = created[k].Difficulty

\* a get of a created, not since updated or deleted, hero has just returned it
C4_Witness ==
    /\ resp.op = "get"
    /\ resp.code = StatusOK
    /\ Atoi(resp.id).v \in DOMAIN created
    /\ resp.body.Name = created[Atoi(resp.id).v].Name

\* C5 as stated: an authenticated update whose id is the id of no stored
\* hero is answered 404 for every request body.
C5_AbsentIdNotFound ==
    \A authHeader \in PassingHeaders, id \in PathIds \cup {AbsentId}, req \in HeroBodies :
        ~IdStored(id) =>
            routePutHero(authHeader, id, req, FALSE).r.code = StatusNotFound

\* C5: an authenticated update whose id is the id of no stored hero leaves
\* the store unchanged and is answered 404 when the body decodes and its
\* name, role and difficulty are all non-empty (and, in the durable build,
\* the id is a number and the UPDATE statement does not fail); a body that
\* does not decode or has an empty field is answered 400, because both
\* builds validate the body before they look the id up, and the durable
\* build answers 400 to an id that is not a number.
C5_AbsentIdByBody ==
    \A authHeader \in PassingHeaders, id \in PathIds \cup {AbsentId}, req \in HeroBodies :
        \A dbErr \in DbErrs :
            ~IdStored(id) =>
                \E o \in {routePutHero(authHeader, id, req, dbErr)} :
                    /\ StoreKept(o)
                    /\ o.r.code =
                         IF variant = "durable" /\ ~Atoi(id).ok THEN StatusBadRequest
                         ELSE IF ~req.ok \/ HasEmptyField(req) THEN StatusBadRequest
                         ELSE IF dbErr THEN StatusInternalServerError
                         ELSE StatusNotFound

\* an update that passed the gate, of an id no hero has, has just been
\* answered 400 for its empty field
C5_Witness ==
    /\ HasAuth(variant)
    /\ resp.op = "update"
    /\ resp.code = StatusBadRequest
    /\ resp.msg = "Name, role, and difficulty are required"
    /\ ~IdStored(resp.id)
    /\ variant = "durable" => Atoi(resp.id).ok

\* C6: an authenticated update of a stored hero whose body has an empty
\* name, role or difficulty is answered 400 and leaves every stored record
\* unchanged.
C6_EmptyFieldRejected ==
    \A authHeader \in PassingHeaders, id \in PathIds, req \in HeroBodies :
        \A dbErr \in DbErrs :
            IdStored(id) /\ req.ok /\ HasEmptyField(req) =>
                \E o \in {routePutHero(authHeader, id, req, dbErr)} :
                    o.r.code = StatusBadRequest /\ StoreKept(o)

\* an update that passed the gate, of a hero that is stored, has just been
\* answered 400 for its empty field
C6_Witness ==
    /\ HasAuth(variant)
    /\ resp.op = "update"
    /\ resp.code = StatusBadRequest
    /\ resp.msg = "Name, role, and difficulty are required"
    /\ IdStored(resp.id)

\* C7: after a delete of id has succeeded no hero has that id again, whatever
\* creates follow, and in the durable build every get of that id is
\* answered 404.
C7_DeletedIdStaysGone ==
    \A k \in deleted :
        /\ \A i \in 1..Len(heroes) : heroes[i].ID # k
        /\ variant = "durable" =>
              \A id \in PathIds :
                  Atoi(id).ok /\ Atoi(id).v = k =>
                      getHeroByID(id, FALSE).code = StatusNotFound

(***************************************************************************)
(* Properties of the in-memory store under concurrent requests (SpecMem).  *)
(***************************************************************************)
\* C8: the hero store never holds two heroes with the same id, under every
\* interleaving of concurrently handled requests.
C8_UniqueIds ==
    \A i, j \in 1..Len(heroes) : i # j => heroes[i].ID # heroes[j].ID

(***************************************************************************)
(* Properties of the sweep (SpecSweep).                                    *)
(***************************************************************************)
\* C9 as stated: no entry is in the registry more than one sweep interval
\* after its expiry instant.
C9_GoneWithinInterval ==
    \A t \in DOMAIN validTokens : now - validTokens[t] <= SweepInterval

\* C9: an entry whose expiry instant has passed is removed by the first run
\* of the sweep that starts after that instant, so no run of the sweep later
\* than its expiry has happened while it is in the registry; the loop sleeps
\* at least, not exactly, one sweep interval between runs, so the entry
\* stays no longer than one sweep interval plus the lateness of the wake-up.
C9_GoneAtNextSweep ==
    \A t \in DOMAIN validTokens :
        now > validTokens[t] =>
            /\ lastSweep <= validTokens[t]
            /\ now - validTokens[t] <= SweepInterval + MaxLate

\* the sweep has just run and removed an issued token; another, issued
\* later, expires at this very instant and was kept
C9_Witness ==
    /\ lastSweep = now
    /\ \E n \in 1..nextUuid : Uuid(n) \notin DOMAIN validTokens
    /\ \E t \in DOMAIN validTokens : validTokens[t] = now

(***************************************************************************)
(* Properties of the gate (SpecAuth).                                      *)
(***************************************************************************)
\* which of its cases a header is for the gate
GateCase(authHeader) ==
    IF authHeader = <<>> THEN "missing"
    ELSE IF authHeader[1] # "Bearer " THEN "format"
    ELSE IF Tail(authHeader) = <<>> THEN "empty"
    ELSE IF Tail(authHeader) \notin DOMAIN validTokens THEN "unknown"
    ELSE "known"

\* C11: the gate answers 401 to a missing header, a header not starting
\* with "Bearer ", an empty token and a token not in the registry, with a
\* message per case that differs from the messages of the other three; in
\* every other case, and only then, the wrapped handler runs (its result is
\* the result of the route; a stopped request leaves the store alone).
C11_GateCases ==
    /\ \A authHeader \in Headers :
          \E g \in {authMiddleware(authHeader)} :
              /\ g.pass <=> GateCase(authHeader) = "known"
              /\ ~g.pass => g.r.code = StatusUnauthorized
              /\ \A req \in HeroBodies :
                    routePostHeroes(authHeader, req, FALSE) =
                        IF GateCase(authHeader) = "known"
                        THEN (IF variant = "durable" THEN createHero(req, FALSE)
                              ELSE createHeroMem(req))
                        ELSE StoreResult(g.r, heroes, nextID)
    /\ \A h1, h2 \in Headers :
          /\ GateCase(h1) # "known"
          /\ GateCase(h2) # "known"
          /\ GateCase(h1) # GateCase(h2)
          => authMiddleware(h1).r.msg # authMiddleware(h2).r.msg

\* a protected request with the header "Bearer " alone has just been
\* answered 401 with the message of the empty token, while the registry
\* holds a token
C11_Witness ==
    /\ resp.op = "create"
    /\ resp.hdr = BearerPrefix
    /\ resp.code = StatusUnauthorized
    /\ resp.msg = "Token required"
    /\ DOMAIN validTokens # {}

(***************************************************************************)
(* Properties of the list.                                                 *)
(***************************************************************************)
\* the id of a hero as a number
NumId(hero) == IF variant = "durable" THEN hero.ID ELSE Atoi(hero.ID).v

\* C12: list returns every stored hero, each exactly once, in ascending
\* order of id; in the in-memory builds the heroes slice itself is in
\* ascending order of numeric id.
C12_ListAscending ==
    \E l \in {routeGetHeroes(FALSE).body} :
        /\ Len(l) = Len(heroes)
        /\ \A i \in 1..Len(heroes) :
              Cardinality({j \in 1..Len(l) : l[j] = heroes[i]}) =
                  Cardinality({j \in 1..Len(heroes) : heroes[j] = heroes[i]})
        /\ \A i, j \in 1..Len(l) : i < j => NumId(l[i]) <= NumId(l[j])
        /\ variant # "durable" => l = heroes

(***************************************************************************)
(* Properties of the locking (SpecLock).                                   *)
(***************************************************************************)
\* g is between its lock call and its unlock call
InCriticalSection(g) == pc[g] \in {"access", "release"}

\* g is there to write the map (issue, revoke, sweep) / to read it (validate)
Writer(g) == InCriticalSection(g) /\ inflight[g].op \in {"login", "logout", "sweep"}

Reader(g) == InCriticalSection(g) /\ inflight[g].op = "validate"

\* C13: every access to the token map is made holding tokenMutex, validate
\* for reading and login, logout and the sweep for writing, so a writer is
\* never in its critical section together with another writer or a reader,
\* whatever the interleaving of the requests and the sweep.
C13_TokenMutexExcludes ==
    /\ \A g \in Goroutines : Writer(g) => tokenMutex.w = {g} /\ tokenMutex.r = {}
    /\ \A g \in Goroutines : Reader(g) => g \in tokenMutex.r /\ tokenMutex.w = {}
    /\ \A g1, g2 \in Goroutines :
          g1 # g2 /\ Writer(g1) => ~InCriticalSection(g2)

\* the sweep is in its critical section while a logout and a validate wait
\* for the lock
C13_Witness ==
    /\ Writer(Sweeper)
    /\ \E g1, g2 \in Workers :
          /\ pc[g1] = "acquire" /\ inflight[g1].op = "logout"
          /\ pc[g2] = "acquire" /\ inflight[g2].op = "validate"

(***************************************************************************)
(* Properties of expiry (SpecSweep).                                       *)
(***************************************************************************)
\* the expiry instant of the registry entry t has passed
Expired(t) == now > validTokens[t]

\* C14: the gate decides on the presence of the token in the registry, not
\* on its expiry: a protected request carrying a token whose expiry instant
\* has passed and which no sweep has removed yet passes the gate, and the
\* result of the request is the result of its handler.
C14_ExpiredTokenAccepted ==
    \A t \in DOMAIN validTokens :
        Expired(t) =>
            /\ authMiddleware(BearerPrefix \o t).pass
            /\ \A req \in HeroBodies :
                  routePostHeroes(BearerPrefix \o t, req, FALSE) =
                      IF variant = "durable" THEN createHero(req, FALSE)
                      ELSE createHeroMem(req)

\* every token of the registry is past its expiry, and a protected request
\* has just been answered by its handler
C14_Witness ==
    /\ DOMAIN validTokens # {}
    /\ \A t \in DOMAIN validTokens : Expired(t)
    /\ resp.op = "create"
    /\ resp.code = StatusBadRequest
    /\ resp.msg = "Name, role, and difficulty are required"

(***************************************************************************)
(* Properties of update.                                                   *)
(***************************************************************************)
\* C15: a hero's id never changes: a step that answers an update with 200
\* leaves every stored record in its place with its id, changes no record
\* but the one whose id is the path id (of which, in the durable build, the
\* creation instant stays too), and returns the path id, also when the body
\* carries another id.
C15_IdImmutable ==
    [][resp'.op = "update" /\ resp'.code = StatusOK =>
          /\ Len(heroes') = Len(heroes)
          /\ nextID' = nextID
          /\ resp'.body.ID = PathKey(resp'.id)
          /\ \A j \in 1..Len(heroes) :
                /\ heroes'[j].ID = heroes[j].ID
                /\ heroes[j].ID # PathKey(resp'.id) => heroes'[j] = heroes[j]
                /\ variant = "durable" => heroes'[j].CreatedAt = heroes[j].CreatedAt]_vars

\* C16: one run of the sweep removes from the registry exactly the entries
\* whose expiry instant is strictly before the time of the run, and keeps
\* every other entry with its expiry.
C16_SweepExact ==
    [][cleanExpiredTokens =>
          /\ DOMAIN validTokens' = {t \in DOMAIN validTokens : ~(validTokens[t] < now)}
          /\ \A t \in DOMAIN validTokens' : validTokens'[t] = validTokens[t]
          /\ now' = now]_vars

\* a run of the sweep has just removed an issued token and kept the rest of
\* a registry in which no expiry is before the time of the run
C16_Witness ==
    /\ lastSweep = now
    /\ resp = Idle
    /\ DOMAIN validTokens # {}
    /\ \A t \in DOMAIN validTokens : validTokens[t] >= now
    /\ Cardinality(DOMAIN validTokens) < nextUuid

(***************************************************************************)
(* Properties of logout (SpecAuth).                                        *)
(***************************************************************************)
\* C17: a logout that carries a non-empty token is answered 200 and its only
\* effect on the registry is that the token is absent afterwards: the other
\* entries are unchanged, the registry is unchanged when the token was
\* absent, and the same logout again is answered 200 and changes nothing.
C17_LogoutIdempotent ==
    [][\A authHeader \in Headers :
          Logout(authHeader) /\ NamedToken(authHeader) # <<>> =>
              /\ resp'.code = StatusOK
              /\ DOMAIN validTokens' = DOMAIN validTokens \ {NamedToken(authHeader)}
              /\ \A t \in DOMAIN validTokens' : validTokens'[t] = validTokens[t]
              /\ NamedToken(authHeader) \notin DOMAIN validTokens =>
                    validTokens' = validTokens
              /\ (routeLogout(authHeader).r.code)' = StatusOK
              /\ (routeLogout(authHeader).validTokens)' = validTokens']_vars

\* the logout of a token that a login issued and that is no longer in the
\* registry has just been answered 200, with another token still registered
C17_Witness ==
    /\ resp.op = "logout"
    /\ resp.code = StatusOK
    /\ resp.hdr # <<>>
    /\ HasPrefix(resp.hdr, BearerPrefix)
    /\ Tail(resp.hdr) \in IssuedTokens \ DOMAIN validTokens
    /\ DOMAIN validTokens # {}

(***************************************************************************)
(* SpecBoot: the durable build stopped and started again.  The table and   *)
(* its id sequence are in the database and outlive the process; the        *)
(* registry is in its memory and does not.  A startup whose statement      *)
(* fails ends in log.Fatalf, and the process is down until the next one.   *)
(***************************************************************************)
Serving == pc[Sweeper] = "idle"

\* main(): CreateTables keeps an existing table, then InsertInitialData
Startup(failAt) ==
    \E o \in {InsertInitialData(heroes, nextID, failAt)} :
    /\ variant = "durable"
    /\ o.nextID <= FirstID + MaxReseeds * Len(initHeroes)
    /\ heroes' = o.heroes
    /\ nextID' = o.nextID
    /\ validTokens' = EmptyMap
    /\ lastSweep' = now
    /\ pc' = [pc EXCEPT ![Sweeper] = IF o.err THEN "down" ELSE "idle"]
    /\ resp' = [Idle EXCEPT !.op = "startup", !.msg = o.msg]
    /\ UNCHANGED <<variant, lockVars, nextUuid, now, newHero, oldHeroes, foundAt, historyVars>>

InitBoot == InitVariant("durable")

\* {id} path segments: the rows of the table
BootIds == {Itoa(heroes[i].ID) : i \in DOMAIN heroes}

NextBoot ==
    \/ \E failAt \in StartupFailures : Startup(failAt)
    \/ Serving /\ Login(LoginReq("user1", "12345")) /\ nextUuid' <= MaxBootLogins
    \/ Serving /\ \E authHeader \in TokenHeaders :
          CreateHero(authHeader, HeroReq("Zilong", "Fighter", "Mudah"), FALSE)
    \/ Serving /\ \E authHeader \in TokenHeaders, id \in BootIds :
          DeleteHero(authHeader, id, FALSE)
    \/ Serving /\ GetHeroes(FALSE)

SpecBoot == InitBoot /\ [][NextBoot]_vars

\* the seed rows in the table, by name
SeedNames == {initHeroes[i].Name : i \in DOMAIN initHeroes}

Names(rows) == [i \in DOMAIN rows |-> rows[i].Name]

\* C18: a startup inserts the three fixed heroes if and only if it finds the
\* table empty: a startup that finds a row leaves the rows unchanged, and a
\* startup that finds none and whose statements succeed leaves Alucard, Miya
\* and Fanny, once each; no startup leaves a seed hero's row twice that was
\* there once.
C18_SeedIffEmpty ==
    [][\A failAt \in StartupFailures :
          Startup(failAt) =>
              /\ heroes # <<>> => heroes' = heroes
              /\ heroes' # heroes => heroes = <<>>
              /\ heroes = <<>> /\ failAt = NoFailure =>
                    Names(heroes') = Names(initHeroes)
              /\ \A n \in SeedNames :
                    Cardinality({i \in DOMAIN heroes' : heroes'[i].Name = n})
                        <= IF heroes = <<>> THEN 1
                           ELSE Cardinality({i \in DOMAIN heroes : heroes[i].Name = n})]_vars

\* a startup has just found the rows that an earlier startup inserted into
\* the emptied table, and skipped the insertion
C18_Witness ==
    /\ resp.op = "startup"
    /\ resp.msg = "Initial data already exists, skipping insertion"
    /\ Len(heroes) = Len(initHeroes)
    /\ heroes[1].ID >= FirstID
    /\ Names(heroes) = Names(initHeroes)

(***************************************************************************)
(* SpecGate: the two builds with the gate, their registry changing under   *)
(* login and logout while requests with every kind of header create,       *)
(* update and delete heroes.                                               *)
(***************************************************************************)
GateBodies == {WithID(HeroReq("Layla", "Marksman", "Sedang"), <<"1">>)}

GateIds == {<<"1">>}

NextGate ==
    \/ Login(LoginReq("user1", "12345")) /\ nextUuid' <= MaxGateLogins
    \/ \E authHeader \in Headers : Logout(authHeader)
    \/ \E authHeader \in Headers, req \in GateBodies : CreateHero(authHeader, req, FALSE)
    \/ \E authHeader \in Headers, id \in GateIds, req \in GateBodies :
          UpdateHero(authHeader, id, req, FALSE)
    \/ \E authHeader \in Headers, id \in GateIds : DeleteHero(authHeader, id, FALSE)
    \/ \E id \in GateIds : GetHeroByID(id, FALSE)
    \/ GetHeroes(FALSE)
    \/ Options

SpecGate == InitAuth /\ [][NextGate]_vars

\* the header is "Bearer " and a token that the registry holds
Registered(authHeader) ==
    /\ HasPrefix(authHeader, BearerPrefix)
    /\ TrimPrefix(authHeader, BearerPrefix) \in DOMAIN validTokens

\* C19: with the gate, a step that changes the hero store is a POST, PUT or
\* DELETE of a hero whose header carried a token that was in the registry
\* when the request was handled; login, logout, GET and OPTIONS leave the
\* store as it is.
C19_StoreChangesAuthenticated ==
    [][/\ storeVars' # storeVars => resp'.op \in {"create", "update", "delete"}
       /\ \A authHeader \in Headers, id \in GateIds, req \in GateBodies :
             /\ storeVars' # storeVars
             /\ \/ CreateHero(authHeader, req, FALSE)
                \/ UpdateHero(authHeader, id, req, FALSE)
                \/ DeleteHero(authHeader, id, FALSE)
             => Registered(authHeader)]_vars

\* a hero has just been deleted by a request with the token of a login,
\* after a logout with another header
C19_Witness ==
    /\ resp.op = "delete"
    /\ resp.code \in {StatusNoContent, StatusOK}
    /\ Len(heroes) < Len(initHeroes)
    /\ revoked # {}
    /\ DOMAIN validTokens # {}

(***************************************************************************)
(* Properties of acknowledged writes (SpecCreate, SpecMem, Spec).          *)
(***************************************************************************)
\* the number of a store key
KeyNum(id) == IF variant = "durable" THEN id ELSE Atoi(id).v

\* C20: a hero whose creation was answered 201 is in the heroes list, with
\* the fields of its creation or of the last update of its id that was
\* answered 200, as long as no delete of its id has been answered.
C20_AckedWritesKept ==
    \A id \in DOMAIN acked :
        KeyNum(id) >= FirstID => \E i \in DOMAIN heroes : heroes[i] = acked[id]

====
